---- MODULE Spec2Model ----
(***************************************************************************)
(* The SST access layer of mito2 (src/mito2/src/access_layer.rs).          *)
(*                                                                         *)
(* One AccessLayer over one region directory and one object store.  Tasks  *)
(* call delete_sst, write_sst and is_exist on it; every `.await` of the    *)
(* source is a point where another task may run, so each call is a         *)
(* sequence of steps.  The object store, the cache manager, the parquet    *)
(* writer and the write cache are collaborators whose code is not part of  *)
(* access_layer.rs; they are modelled from their documented contract.      *)
(*                                                                         *)
(* Option<T> is modelled as a sequence: <<>> is None, <<x>> is Some(x).    *)
(***************************************************************************)
EXTENDS Naturals, Sequences, FiniteSets, TLC

\* ---------------------------------------------------------------- bounds
\* Number of file ids the callers use.
NumFiles == 2
\* Largest number of rows a request's source yields.
MaxRows == 2
\* Number of calls the sequential caller makes in one behaviour.
MaxCalls == 3
\* Number of those calls that are write_sst calls.
MaxWrites == 1
\* Number of times the process is started and calls new_fs_object_store.
MaxBoots == 2

Tasks == {"t1", "t2"}
FileIds == 1..NumFiles
RegionIds == {"r1", "r2"}
\* Two cache managers: one built without a write cache, one with.
CacheManagers == {"cm_plain", "cm_write_cache"}

\* The region directory the layer was constructed with (AccessLayer::new).
region_dir == "region_dir/"

None == <<>>
Some(x) == <<x>>
IsSome(o) == Len(o) = 1
Unwrap(o) == o[1]

\* ----------------------------------------------------------- path scheme
sst_file_path(dir, file_id) == <<dir, file_id, "parquet">>
index_file_path(dir, file_id) == <<dir, file_id, "puffin">>

Paths == {sst_file_path(region_dir, f) : f \in FileIds}
           \cup {index_file_path(region_dir, f) : f \in FileIds}

VARIABLES
  store,        \* object store: path -> "absent" | "partial" | "complete"
  cache,        \* cache manager -> (<<region id, file id>> -> Option<metadata>)
  task,         \* task -> the call the task has in flight, or finished last
  calls,        \* number of calls begun so far
  writes,       \* number of write_sst calls begun so far
  write_begun,  \* file ids some write_sst call was begun for
  write_done,   \* file ids some write_sst call returned Some(info) for
  delete_begun, \* file ids some delete_sst call was begun for
  delete_outcome, \* file id -> how the latest delete_sst on it ended, since
                \*   the last write_sst on it began: "none" | "deleted" |
                \*   "dangling"
  staging,      \* the atomic-write directory of a local store: whether it
                \*   exists, and the staged files it holds
  boot          \* the new_fs_object_store call of the process

layer_vars == <<store, cache, task, calls, writes, write_begun, write_done,
                delete_begun, delete_outcome>>
boot_vars == <<staging, boot>>
vars == <<store, cache, task, calls, writes, write_begun, write_done, delete_begun,
          delete_outcome, staging, boot>>

\* ------------------------------------------------------------ the backend
\* ObjectStore::delete: removes a present object; a path that holds nothing
\* is reported as not found; any request may also fail in the backend, and a
\* failed request changes nothing.
BackendDelete(s, path) ==
  (IF s[path] # "absent"
     THEN {[res |-> "Ok", store |-> [s EXCEPT ![path] = "absent"]]}
     ELSE {[res |-> "NotFound", store |-> s]})
  \cup {[res |-> "Unexpected", store |-> s]}

\* ObjectStore::is_exist: whether an object is at the path, or a failure.
BackendIsExist(s, path) ==
  {[res |-> "Ok", value |-> (s[path] # "absent")],
   [res |-> "Unexpected", value |-> FALSE]}

\* CacheManager::write_cache: Some(handle) iff the manager has a write cache.
write_cache(cm) == IF cm = "cm_write_cache" THEN Some("write_cache") ELSE None

\* CacheManager::put_parquet_meta_data
put_parquet_meta_data(c, cm, region_id, file_id, meta) ==
  [c EXCEPT ![cm][<<region_id, file_id>>] = Some(meta)]

\* CacheManager::get_parquet_meta_data
get_parquet_meta_data(c, cm, region_id, file_id) == c[cm][<<region_id, file_id>>]

\* ------------------------------------------------- the write collaborators
\* The footer metadata of a data file written from `rows` rows.
ParquetMetaData(rows) == [num_rows |-> rows]

SstInfo(rows, index_available, file_metadata) ==
  [num_rows |-> rows, inverted_index_available |-> index_available,
   file_metadata |-> file_metadata]

PutEntry(path, res) == [op |-> "put", path |-> path, res |-> res]

\* What writing one SST to (data_path, index_path) can do, for both write
\* paths: a source of zero rows creates nothing and yields None; otherwise a
\* success leaves the data object, the index object iff index creation is
\* enabled, and yields Some(info), with or without footer metadata; a failure
\* leaves at most partially written objects at the destination paths.
WriteOutcomes(s, data_path, index_path, create, rows) ==
  LET failures ==
        {[ok |-> FALSE, info |-> None,
          store |-> [p \in Paths |->
                       IF (p = data_path /\ d) \/ (p = index_path /\ i)
                         THEN "partial" ELSE s[p]],
          puts |-> (IF i THEN <<PutEntry(index_path, "Partial")>> ELSE <<>>)
                     \o (IF d THEN <<PutEntry(data_path, "Partial")>> ELSE <<>>)]
           : d \in (IF rows > 0 THEN BOOLEAN ELSE {FALSE}),
             i \in (IF rows > 0 /\ create THEN BOOLEAN ELSE {FALSE})}
      successes ==
        IF rows = 0
          THEN {[ok |-> TRUE, info |-> None, store |-> s, puts |-> <<>>]}
          ELSE {[ok |-> TRUE,
                 info |-> Some(SstInfo(rows, create, fm)),
                 store |-> [p \in Paths |->
                              IF p = data_path \/ (p = index_path /\ create)
                                THEN "complete" ELSE s[p]],
                 puts |-> (IF create THEN <<PutEntry(index_path, "Ok")>> ELSE <<>>)
                            \o <<PutEntry(data_path, "Ok")>>]
                  : fm \in {None, Some(ParquetMetaData(rows))}}
  IN successes \cup failures

\* IndexerBuilder { .. }.build()
IndexerBuilder(create, file_id, file_path) ==
  [create_inverted_index |-> create, file_id |-> file_id, file_path |-> file_path]

\* ParquetWriter::new(file_path, metadata, object_store, indexer)
ParquetWriter(file_path, region_id, indexer) ==
  [file_path |-> file_path, region_id |-> region_id, indexer |-> indexer]

\* ParquetWriter::write_all(source, write_opts)
write_all(s, writer, rows) ==
  WriteOutcomes(s, writer.file_path, writer.indexer.file_path,
                writer.indexer.create_inverted_index, rows)

\* SstUploadRequest { upload_path, index_upload_path, remote_store }
SstUploadRequest(upload_path, index_upload_path) ==
  [upload_path |-> upload_path, index_upload_path |-> index_upload_path]

\* WriteCache::write_and_upload_sst(request, upload_request, write_opts)
write_and_upload_sst(s, request, upload) ==
  WriteOutcomes(s, upload.upload_path, upload.index_upload_path,
                request.create_inverted_index, request.rows)

\* -------------------------------------------------------------- requests
NoReq ==
  [op |-> "none", file_id |-> 1, region_id |-> "r1", cache_manager |-> "cm_plain",
   rows |-> 0, create_inverted_index |-> FALSE, inverted_index_available |-> FALSE]

\* delete_sst(&FileMeta) and is_exist(&FileMeta)
FileMetaReq(op, f, flag) ==
  [NoReq EXCEPT !.op = op, !.file_id = f, !.inverted_index_available = flag]

\* write_sst(SstWriteRequest, &WriteOptions)
SstWriteRequest(f, r, cm, n, create) ==
  [NoReq EXCEPT !.op = "write_sst", !.file_id = f, !.region_id = r,
                !.cache_manager = cm, !.rows = n, !.create_inverted_index = create]

Pending == [kind |-> "Pending"]

\* A task's call record:
\*   pc          where the call stands ("idle": no call; "done": returned;
\*               "dropped": its future was dropped; else the await it is at)
\*   req         the arguments of the call
\*   sst_info    the local `sst_info` of write_sst
\*   result      what the call returned
\*   log         the backend operations the call issued, in order
\*   strategy    the write strategies the call ran, in order
\*   cache_puts  the cache entries the call inserted
Idle ==
  [pc |-> "idle", req |-> NoReq, sst_info |-> None, result |-> Pending,
   log |-> <<>>, strategy |-> <<>>, cache_puts |-> {}]

Finished(u) == task[u].pc \in {"done", "dropped"}
InFlight(u) == task[u].pc \notin {"idle", "done", "dropped"}

\* ------------------------------------------------- the staging directory
\* The root a local store is made over, and join_dir(root, ".tmp/").
root == "root/"
join_dir(parent, child) == <<parent, child>>

\* The directory does not exist / the states it can be in: it exists and
\* holds the staged files of some file ids.
NoStaging == [exists |-> FALSE, files |-> {}]
StagingStates == {NoStaging} \cup {[exists |-> TRUE, files |-> F] : F \in SUBSET FileIds}

\* tokio::fs::try_exists(dir): whether the directory exists, or an I/O error.
FsTryExists(st) ==
  {[res |-> "Ok", value |-> st.exists], [res |-> "IoError", value |-> FALSE]}

\* tokio::fs::remove_dir_all(dir): removes the directory and all it holds; a
\* removal that fails may have removed some of the files.
FsRemoveDirAll(st) ==
  {[res |-> "Ok", staging |-> NoStaging]}
    \cup {[res |-> "IoError", staging |-> [exists |-> TRUE, files |-> F]]
            : F \in SUBSET st.files}

\* ObjectStore::new(builder) of the Fs service: fails, or yields a store; the
\* directory it was given is created when it is first needed, which may be
\* now, and nothing is ever put into it by the construction.
FsBuild(st) ==
  {[res |-> "Ok", staging |-> st],
   [res |-> "Ok", staging |-> [st EXCEPT !.exists = TRUE]],
   [res |-> "BuildError", staging |-> st]}

\* The record of the process's new_fs_object_store call:
\*   pc      "none": the layer's store was handed to it ready made;
\*           "down": the process is not running; "done": the call returned;
\*           "in_use": the returned store has staged a write since;
\*           else the step the call is at
\*   result  what the call returned
\*   log     the file-system and backend operations the call issued, in order
\*   found   the staging directory as the call found it
\*   runs    the number of times the process was started
BootIdle ==
  [pc |-> "none", result |-> Pending, log |-> <<>>, found |-> NoStaging, runs |-> 0]

InitLayer ==
  /\ store = [p \in Paths |-> "absent"]
  /\ cache = [cm \in CacheManagers |-> [k \in RegionIds \X FileIds |-> None]]
  /\ task = [t \in Tasks |-> Idle]
  /\ calls = 0
  /\ writes = 0
  /\ write_begun = {}
  /\ write_done = {}
  /\ delete_begun = {}
  /\ delete_outcome = [f \in FileIds |-> "none"]

\* The layer is constructed over a store that is in place (AccessLayer::new).
Init ==
  /\ InitLayer
  /\ staging = NoStaging
  /\ boot = BootIdle

\* A process about to make its local store, over whatever an earlier run
\* left in the staging directory; no layer is constructed yet.
InitBootstrap ==
  /\ InitLayer
  /\ staging \in StagingStates
  /\ boot = [BootIdle EXCEPT !.pc = "down"]

\* A task that holds no call in flight may begin one.
CanBegin(t) == ~InFlight(t)

\* Task t's record becomes rec.  A finished call's record is kept until
\* another task takes a step.
Settle(t, rec) ==
  task' = [u \in Tasks |-> IF u = t THEN rec ELSE IF Finished(u) THEN Idle ELSE task[u]]

BeginCall(t, r, at) ==
  /\ Settle(t, [Idle EXCEPT !.pc = at, !.req = r])
  /\ calls' = calls + 1

LogEntry(op, path, res) == [op |-> op, path |-> path, res |-> res]

\* How the latest delete_sst on each file id ended, once the call whose
\* record is rec has acted and the store is s: a call that returned success
\* has deleted the file; one that returned the index-delete error has left
\* the index object dangling if one is stored; a call that failed in the
\* data delete has changed nothing.
DeleteOutcome(d, rec, s) ==
  LET f == rec.req.file_id IN
  IF rec.pc # "done" THEN d
  ELSE IF rec.result.kind = "Ok" THEN [d EXCEPT ![f] = "deleted"]
  ELSE IF rec.result.kind = "DeleteIndex"
         THEN [d EXCEPT ![f] = IF s[index_file_path(region_dir, f)] # "absent"
                                 THEN "dangling" ELSE "none"]
  ELSE d

\* ------------------------------------------------------------ delete_sst
\* delete_sst is entered: the data path is computed and its delete is issued.
delete_sst_begin(t) ==
  /\ CanBegin(t)
  /\ \E f \in FileIds, flag \in BOOLEAN :
       /\ BeginCall(t, FileMetaReq("delete_sst", f, flag), "delete_data")
       /\ delete_begun' = delete_begun \cup {f}
  /\ UNCHANGED <<store, cache, writes, write_begun, write_done, delete_outcome>>

\* Mutants of delete_sst_data.
\* The error of the data delete is dropped instead of returned.
delete_sst_data_unchecked(t) ==
  /\ task[t].pc = "delete_data"
  /\ LET file_meta == task[t].req
         path == sst_file_path(region_dir, file_meta.file_id) IN
     \E o \in BackendDelete(store, path) :
       LET logged == [task[t] EXCEPT !.log = Append(@, LogEntry("delete", path, o.res))] IN
       /\ store' = o.store
       /\ IF file_meta.inverted_index_available
            THEN Settle(t, [logged EXCEPT !.pc = "delete_index"])
            ELSE Settle(t, [logged EXCEPT !.pc = "done", !.result = [kind |-> "Ok"]])
  /\ delete_outcome' = DeleteOutcome(delete_outcome, task'[t], store')
  /\ UNCHANGED <<cache, calls, writes, write_begun, write_done, delete_begun>>

\* The index delete is decided by what the store holds, not by the FileMeta.
delete_sst_data_by_store(t) ==
  /\ task[t].pc = "delete_data"
  /\ LET file_meta == task[t].req
         path == sst_file_path(region_dir, file_meta.file_id) IN
     \E o \in BackendDelete(store, path) :
       LET logged == [task[t] EXCEPT !.log = Append(@, LogEntry("delete", path, o.res))] IN
       /\ store' = o.store
       /\ IF o.res # "Ok"
            THEN Settle(t, [logged EXCEPT !.pc = "done",
                   !.result = [kind |-> "DeleteSst", file_id |-> file_meta.file_id,
                               source |-> o.res]])
            ELSE IF store[index_file_path(region_dir, file_meta.file_id)] # "absent"
                   THEN Settle(t, [logged EXCEPT !.pc = "delete_index"])
                   ELSE Settle(t, [logged EXCEPT !.pc = "done", !.result = [kind |-> "Ok"]])
  /\ delete_outcome' = DeleteOutcome(delete_outcome, task'[t], store')
  /\ UNCHANGED <<cache, calls, writes, write_begun, write_done, delete_begun>>

\* A data delete that failed inside the backend is issued again.
delete_sst_data_retry(t) ==
  /\ task[t].pc = "delete_data"
  /\ LET file_meta == task[t].req
         path == sst_file_path(region_dir, file_meta.file_id) IN
     \E o \in BackendDelete(store, path) :
       LET logged == [task[t] EXCEPT !.log = Append(@, LogEntry("delete", path, o.res))] IN
       /\ store' = o.store
       /\ IF o.res = "Unexpected" /\ Len(task[t].log) = 0
            THEN Settle(t, logged)
            ELSE IF o.res # "Ok"
                   THEN Settle(t, [logged EXCEPT !.pc = "done",
                          !.result = [kind |-> "DeleteSst", file_id |-> file_meta.file_id,
                                      source |-> o.res]])
            ELSE IF file_meta.inverted_index_available
                   THEN Settle(t, [logged EXCEPT !.pc = "delete_index"])
                   ELSE Settle(t, [logged EXCEPT !.pc = "done", !.result = [kind |-> "Ok"]])
  /\ delete_outcome' = DeleteOutcome(delete_outcome, task'[t], store')
  /\ UNCHANGED <<cache, calls, writes, write_begun, write_done, delete_begun>>

\* A deleted file's metadata is dropped from the cache.
delete_sst_data_invalidate(t) ==
  /\ task[t].pc = "delete_data"
  /\ LET file_meta == task[t].req
         path == sst_file_path(region_dir, file_meta.file_id) IN
     \E o \in BackendDelete(store, path) :
       LET logged == [task[t] EXCEPT !.log = Append(@, LogEntry("delete", path, o.res))] IN
       /\ store' = o.store
       /\ cache' = IF o.res = "Ok"
                     THEN [cm \in CacheManagers |-> [k \in RegionIds \X FileIds |->
                             IF k[2] = file_meta.file_id THEN None ELSE cache[cm][k]]]
                     ELSE cache
       /\ IF o.res # "Ok"
            THEN Settle(t, [logged EXCEPT !.pc = "done",
                   !.result = [kind |-> "DeleteSst", file_id |-> file_meta.file_id,
                               source |-> o.res]])
            ELSE IF file_meta.inverted_index_available
                   THEN Settle(t, [logged EXCEPT !.pc = "delete_index"])
                   ELSE Settle(t, [logged EXCEPT !.pc = "done", !.result = [kind |-> "Ok"]])
  /\ delete_outcome' = DeleteOutcome(delete_outcome, task'[t], store')
  /\ UNCHANGED <<calls, writes, write_begun, write_done, delete_begun>>

\* A data object that is not there counts as deleted.
delete_sst_data_lenient(t) ==
  /\ task[t].pc = "delete_data"
  /\ LET file_meta == task[t].req
         path == sst_file_path(region_dir, file_meta.file_id) IN
     \E o \in BackendDelete(store, path) :
       LET logged == [task[t] EXCEPT !.log = Append(@, LogEntry("delete", path, o.res))] IN
       /\ store' = o.store
       /\ IF o.res = "Unexpected"
            THEN Settle(t, [logged EXCEPT !.pc = "done",
                   !.result = [kind |-> "DeleteSst", file_id |-> file_meta.file_id,
                               source |-> o.res]])
            ELSE IF file_meta.inverted_index_available
                   THEN Settle(t, [logged EXCEPT !.pc = "delete_index"])
                   ELSE Settle(t, [logged EXCEPT !.pc = "done", !.result = [kind |-> "Ok"]])
  /\ delete_outcome' = DeleteOutcome(delete_outcome, task'[t], store')
  /\ UNCHANGED <<cache, calls, writes, write_begun, write_done, delete_begun>>

\* The data delete returns: an error ends the call (`?`), tagged DeleteSst
\* with the file id; success goes on to the index delete iff the FileMeta
\* says an inverted index is available.
delete_sst_data(t) ==
  /\ task[t].pc = "delete_data"
  /\ LET file_meta == task[t].req
         path == sst_file_path(region_dir, file_meta.file_id) IN
     \E o \in BackendDelete(store, path) :
       LET logged == [task[t] EXCEPT !.log = Append(@, LogEntry("delete", path, o.res))] IN
       /\ store' = o.store
       /\ IF o.res # "Ok"
            THEN Settle(t, [logged EXCEPT !.pc = "done",
                   !.result = [kind |-> "DeleteSst", file_id |-> file_meta.file_id,
                               source |-> o.res]])
            ELSE IF file_meta.inverted_index_available
                   THEN Settle(t, [logged EXCEPT !.pc = "delete_index"])
                   ELSE Settle(t, [logged EXCEPT !.pc = "done", !.result = [kind |-> "Ok"]])
  /\ delete_outcome' = DeleteOutcome(delete_outcome, task'[t], store')
  /\ UNCHANGED <<cache, calls, writes, write_begun, write_done, delete_begun>>

\* Mutant of delete_sst_index: the error carries the context of the data
\* delete.
delete_sst_index_mistagged(t) ==
  /\ task[t].pc = "delete_index"
  /\ LET file_meta == task[t].req
         path == index_file_path(region_dir, file_meta.file_id) IN
     \E o \in BackendDelete(store, path) :
       LET logged == [task[t] EXCEPT !.log = Append(@, LogEntry("delete", path, o.res))] IN
       /\ store' = o.store
       /\ IF o.res # "Ok"
            THEN Settle(t, [logged EXCEPT !.pc = "done",
                   !.result = [kind |-> "DeleteSst", file_id |-> file_meta.file_id,
                               source |-> o.res]])
            ELSE Settle(t, [logged EXCEPT !.pc = "done", !.result = [kind |-> "Ok"]])
  /\ delete_outcome' = DeleteOutcome(delete_outcome, task'[t], store')
  /\ UNCHANGED <<cache, calls, writes, write_begun, write_done, delete_begun>>

\* Mutant of delete_sst_index: a failed index delete is not reported.
delete_sst_index_swallow(t) ==
  /\ task[t].pc = "delete_index"
  /\ LET file_meta == task[t].req
         path == index_file_path(region_dir, file_meta.file_id) IN
     \E o \in BackendDelete(store, path) :
       LET logged == [task[t] EXCEPT !.log = Append(@, LogEntry("delete", path, o.res))] IN
       /\ store' = o.store
       /\ Settle(t, [logged EXCEPT !.pc = "done", !.result = [kind |-> "Ok"]])
  /\ delete_outcome' = DeleteOutcome(delete_outcome, task'[t], store')
  /\ UNCHANGED <<cache, calls, writes, write_begun, write_done, delete_begun>>

\* The index delete returns: an error is tagged DeleteIndex with the file id.
delete_sst_index(t) ==
  /\ task[t].pc = "delete_index"
  /\ LET file_meta == task[t].req
         path == index_file_path(region_dir, file_meta.file_id) IN
     \E o \in BackendDelete(store, path) :
       LET logged == [task[t] EXCEPT !.log = Append(@, LogEntry("delete", path, o.res))] IN
       /\ store' = o.store
       /\ IF o.res # "Ok"
            THEN Settle(t, [logged EXCEPT !.pc = "done",
                   !.result = [kind |-> "DeleteIndex", file_id |-> file_meta.file_id,
                               source |-> o.res]])
            ELSE Settle(t, [logged EXCEPT !.pc = "done", !.result = [kind |-> "Ok"]])
  /\ delete_outcome' = DeleteOutcome(delete_outcome, task'[t], store')
  /\ UNCHANGED <<cache, calls, writes, write_begun, write_done, delete_begun>>

\* ------------------------------------------------------------- write_sst
\* `if let Some(write_cache) = cache_manager.write_cache()`: the strategy of
\* one call.
write_strategy(request) ==
  IF IsSome(write_cache(request.cache_manager)) THEN "write_cache" ELSE "direct"

\* Mutant of write_sst_indexer: index creation is switched on whatever the
\* request says.
write_sst_indexer_always(request) ==
  IndexerBuilder(TRUE, request.file_id, index_file_path(region_dir, request.file_id))

\* The indexer the direct path builds for a request.
write_sst_indexer(request) ==
  IndexerBuilder(request.create_inverted_index, request.file_id,
                 index_file_path(region_dir, request.file_id))

\* write_sst is entered: the paths are computed, the cache manager is asked
\* for its write cache, and the call awaits the strategy chosen (the pc
\* names it).
write_sst_begin(t) ==
  /\ CanBegin(t)
  /\ \E f \in FileIds, r \in RegionIds, cm \in CacheManagers,
        n \in 0..MaxRows, create \in BOOLEAN :
       LET request == SstWriteRequest(f, r, cm, n, create) IN
       /\ BeginCall(t, request, write_strategy(request))
       /\ write_begun' = write_begun \cup {f}
       /\ delete_outcome' = [delete_outcome EXCEPT ![f] = "none"]
  /\ writes' = writes + 1
  /\ UNCHANGED <<store, cache, write_done, delete_begun>>

\* Mutant of write_sst_await: a failed cache-mediated write falls back to the
\* direct writer.
write_sst_await_fallback(t, o) ==
  /\ store' = o.store
  /\ LET logged == [task[t] EXCEPT !.log = @ \o o.puts,
                                   !.strategy = Append(@, task[t].pc)] IN
     IF o.ok
       THEN Settle(t, [logged EXCEPT !.pc = "put_meta", !.sst_info = o.info])
       ELSE IF task[t].pc = "write_cache"
              THEN Settle(t, [logged EXCEPT !.pc = "direct"])
              ELSE Settle(t, [logged EXCEPT !.pc = "done",
                                            !.result = [kind |-> "Err", source |-> "write"]])
  /\ UNCHANGED <<cache, calls, writes, write_begun, write_done, delete_begun, delete_outcome>>

\* Mutant of write_sst_await: a failed write removes what it left at the
\* destination paths.
write_sst_await_cleanup(t, o) ==
  /\ LET data_path == sst_file_path(region_dir, task[t].req.file_id)
         index_path == index_file_path(region_dir, task[t].req.file_id)
         logged == [task[t] EXCEPT !.log = @ \o o.puts,
                                   !.strategy = Append(@, task[t].pc)] IN
     IF o.ok
       THEN /\ store' = o.store
            /\ Settle(t, [logged EXCEPT !.pc = "put_meta", !.sst_info = o.info])
       ELSE /\ store' = [o.store EXCEPT ![data_path] = "absent", ![index_path] = "absent"]
            /\ Settle(t, [logged EXCEPT !.pc = "done",
                                        !.result = [kind |-> "Err", source |-> "write"]])
  /\ UNCHANGED <<cache, calls, writes, write_begun, write_done, delete_begun, delete_outcome>>

\* What both strategies do with the collaborator's outcome: an error ends
\* the call (`.await?`), a success is bound to `sst_info`.
write_sst_await(t, o) ==
  /\ store' = o.store
  /\ LET logged == [task[t] EXCEPT !.log = @ \o o.puts,
                                   !.strategy = Append(@, task[t].pc)] IN
     IF o.ok
       THEN Settle(t, [logged EXCEPT !.pc = "put_meta", !.sst_info = o.info])
       ELSE Settle(t, [logged EXCEPT !.pc = "done",
                                     !.result = [kind |-> "Err", source |-> "write"]])
  /\ UNCHANGED <<cache, calls, writes, write_begun, write_done, delete_begun, delete_outcome>>

\* The cache-mediated path: write_cache.write_and_upload_sst(..).await?
write_sst_write_cache(t) ==
  /\ task[t].pc = "write_cache"
  /\ LET request == task[t].req
         upload == SstUploadRequest(sst_file_path(region_dir, request.file_id),
                                    index_file_path(region_dir, request.file_id)) IN
     \E o \in write_and_upload_sst(store, request, upload) : write_sst_await(t, o)

\* The direct path: writer.write_all(request.source, write_opts).await?
write_sst_direct(t) ==
  /\ task[t].pc = "direct"
  /\ LET request == task[t].req
         writer == ParquetWriter(sst_file_path(region_dir, request.file_id),
                                 request.region_id, write_sst_indexer(request)) IN
     \E o \in write_all(store, writer, request.rows) : write_sst_await(t, o)

\* Mutants of write_sst_put_meta.
\* The entry is keyed by a fixed region, not by the request's.
write_sst_put_meta_fixed_region(c, request, info) ==
  IF IsSome(info) /\ IsSome(Unwrap(info).file_metadata)
    THEN put_parquet_meta_data(c, request.cache_manager, "r1",
                               request.file_id, Unwrap(Unwrap(info).file_metadata))
    ELSE c

\* The entry is keyed by a fixed file id, not by the request's.
write_sst_put_meta_fixed_file(c, request, info) ==
  IF IsSome(info) /\ IsSome(Unwrap(info).file_metadata)
    THEN put_parquet_meta_data(c, request.cache_manager, request.region_id,
                               1, Unwrap(Unwrap(info).file_metadata))
    ELSE c

\* An entry the cache already holds under the key is kept.
write_sst_put_meta_if_absent(c, request, info) ==
  IF /\ IsSome(info) /\ IsSome(Unwrap(info).file_metadata)
     /\ ~IsSome(get_parquet_meta_data(c, request.cache_manager, request.region_id,
                                      request.file_id))
    THEN put_parquet_meta_data(c, request.cache_manager, request.region_id,
                               request.file_id, Unwrap(Unwrap(info).file_metadata))
    ELSE c

\* The entry is inserted whether or not the write produced metadata.
write_sst_put_meta_always(c, request, info) ==
  put_parquet_meta_data(c, request.cache_manager, request.region_id,
                        request.file_id, ParquetMetaData(request.rows))

\* The cache the call's metadata insertion leaves: parquet metadata is put
\* under (region id, file id) iff the write returned Some(info) and the info
\* carries file metadata.
write_sst_put_meta(c, request, info) ==
  IF IsSome(info) /\ IsSome(Unwrap(info).file_metadata)
    THEN put_parquet_meta_data(c, request.cache_manager, request.region_id,
                               request.file_id, Unwrap(Unwrap(info).file_metadata))
    ELSE c

\* Mutant of write_sst_result: an info without file metadata is returned as
\* None.
write_sst_result_meta_only(info) ==
  IF IsSome(info) /\ IsSome(Unwrap(info).file_metadata)
    THEN [kind |-> "Some", info |-> Unwrap(info)] ELSE [kind |-> "None"]

\* What write_sst returns for the `sst_info` it holds: Ok(sst_info).
write_sst_result(info) ==
  IF IsSome(info) THEN [kind |-> "Some", info |-> Unwrap(info)] ELSE [kind |-> "None"]

\* The tail of write_sst: the metadata insertion and the return.
write_sst_finish(t) ==
  /\ task[t].pc = "put_meta"
  /\ cache' = write_sst_put_meta(cache, task[t].req, task[t].sst_info)
  /\ Settle(t, [task[t] EXCEPT !.pc = "done",
                               !.result = write_sst_result(task[t].sst_info),
                               !.cache_puts = {k \in CacheManagers \X RegionIds \X FileIds :
                                                 cache'[k[1]][<<k[2], k[3]>>]
                                                   # cache[k[1]][<<k[2], k[3]>>]}])
  /\ write_done' = IF IsSome(task[t].sst_info)
                     THEN write_done \cup {task[t].req.file_id} ELSE write_done
  /\ UNCHANGED <<store, calls, writes, write_begun, delete_begun, delete_outcome>>

\* The caller drops the future while the write is awaited: the call never
\* returns, and what the collaborator had written so far stays.
write_sst_abandon(t) ==
  /\ task[t].pc \in {"direct", "write_cache"}
  /\ LET request == task[t].req IN
     \E o \in WriteOutcomes(store, sst_file_path(region_dir, request.file_id),
                            index_file_path(region_dir, request.file_id),
                            request.create_inverted_index, request.rows) :
       /\ ~o.ok
       /\ store' = o.store
       /\ Settle(t, [task[t] EXCEPT !.pc = "dropped", !.log = @ \o o.puts,
                                    !.strategy = Append(@, task[t].pc)])
  /\ UNCHANGED <<cache, calls, writes, write_begun, write_done, delete_begun, delete_outcome>>

\* -------------------------------------------------------------- is_exist
is_exist_begin(t) ==
  /\ CanBegin(t)
  /\ \E f \in FileIds, flag \in BOOLEAN :
       BeginCall(t, FileMetaReq("is_exist", f, flag), "is_exist")
  /\ UNCHANGED <<store, cache, writes, write_begun, write_done, delete_begun, delete_outcome>>

\* Mutant of is_exist_check: the index path is looked up.
is_exist_check_index(t) ==
  /\ task[t].pc = "is_exist"
  /\ LET path == index_file_path(region_dir, task[t].req.file_id) IN
     \E o \in BackendIsExist(store, path) :
       LET logged == [task[t] EXCEPT !.log = Append(@, LogEntry("is_exist", path, o.res))] IN
       IF o.res = "Ok"
         THEN Settle(t, [logged EXCEPT !.pc = "done",
                                       !.result = [kind |-> "Bool", value |-> o.value]])
         ELSE Settle(t, [logged EXCEPT !.pc = "done",
                                       !.result = [kind |-> "OpenDal", source |-> o.res]])
  /\ UNCHANGED <<store, cache, calls, writes, write_begun, write_done, delete_begun, delete_outcome>>

\* Mutant of is_exist_check: a file whose FileMeta says it has an index
\* exists only if its index object does too.
is_exist_check_flag(t) ==
  /\ task[t].pc = "is_exist"
  /\ LET path == sst_file_path(region_dir, task[t].req.file_id)
         index_path == index_file_path(region_dir, task[t].req.file_id) IN
     \E o \in BackendIsExist(store, path) :
       LET logged == [task[t] EXCEPT !.log = Append(@, LogEntry("is_exist", path, o.res))] IN
       IF o.res = "Ok"
         THEN Settle(t, [logged EXCEPT !.pc = "done",
                !.result = [kind |-> "Bool",
                            value |-> o.value /\ (task[t].req.inverted_index_available
                                                    => store[index_path] # "absent")]])
         ELSE Settle(t, [logged EXCEPT !.pc = "done",
                                       !.result = [kind |-> "OpenDal", source |-> o.res]])
  /\ UNCHANGED <<store, cache, calls, writes, write_begun, write_done, delete_begun, delete_outcome>>

\* The backend's answer is returned; a backend error is wrapped as OpenDal.
is_exist_check(t) ==
  /\ task[t].pc = "is_exist"
  /\ LET path == sst_file_path(region_dir, task[t].req.file_id) IN
     \E o \in BackendIsExist(store, path) :
       LET logged == [task[t] EXCEPT !.log = Append(@, LogEntry("is_exist", path, o.res))] IN
       IF o.res = "Ok"
         THEN Settle(t, [logged EXCEPT !.pc = "done",
                                       !.result = [kind |-> "Bool", value |-> o.value]])
         ELSE Settle(t, [logged EXCEPT !.pc = "done",
                                       !.result = [kind |-> "OpenDal", source |-> o.res]])
  /\ UNCHANGED <<store, cache, calls, writes, write_begun, write_done, delete_begun, delete_outcome>>

\* --------------------------------------------------- new_fs_object_store
\* The process starts and calls new_fs_object_store(root): the staging
\* directory's name is computed and clean_dir is entered.
new_fs_object_store_begin ==
  /\ boot.pc = "down"
  /\ boot.runs < MaxBoots
  /\ boot' = [BootIdle EXCEPT !.pc = "try_exists", !.found = staging,
                              !.runs = boot.runs + 1]
  /\ UNCHANGED <<staging, layer_vars>>

\* Mutant of clean_dir_try_exists: a directory that exists is not removed.
clean_dir_try_exists_skip ==
  /\ boot.pc = "try_exists"
  /\ LET dir == join_dir(root, ".tmp/") IN
     \E o \in FsTryExists(staging) :
       LET logged == [boot EXCEPT !.log = Append(@, LogEntry("try_exists", dir, o.res))] IN
       boot' = IF o.res # "Ok"
                 THEN [logged EXCEPT !.pc = "done",
                         !.result = [kind |-> "CleanDir", dir |-> dir, source |-> o.res]]
                 ELSE [logged EXCEPT !.pc = "build"]
  /\ UNCHANGED <<staging, layer_vars>>

\* clean_dir: try_exists returns.  An error ends the call (`?`), tagged
\* CleanDir with the directory; `true` goes on to the removal; `false` leaves
\* clean_dir with Ok(()).
clean_dir_try_exists ==
  /\ boot.pc = "try_exists"
  /\ LET dir == join_dir(root, ".tmp/") IN
     \E o \in FsTryExists(staging) :
       LET logged == [boot EXCEPT !.log = Append(@, LogEntry("try_exists", dir, o.res))] IN
       boot' = IF o.res # "Ok"
                 THEN [logged EXCEPT !.pc = "done",
                         !.result = [kind |-> "CleanDir", dir |-> dir, source |-> o.res]]
                 ELSE IF o.value THEN [logged EXCEPT !.pc = "remove_dir_all"]
                 ELSE [logged EXCEPT !.pc = "build"]
  /\ UNCHANGED <<staging, layer_vars>>

\* Mutant of clean_dir_remove_dir_all: a failed removal is not reported.
clean_dir_remove_dir_all_ignore ==
  /\ boot.pc = "remove_dir_all"
  /\ LET dir == join_dir(root, ".tmp/") IN
     \E o \in FsRemoveDirAll(staging) :
       LET logged == [boot EXCEPT !.log = Append(@, LogEntry("remove_dir_all", dir, o.res))] IN
       /\ staging' = o.staging
       /\ boot' = [logged EXCEPT !.pc = "build"]
  /\ UNCHANGED layer_vars

\* clean_dir: remove_dir_all returns.  An error ends the call, tagged
\* CleanDir with the directory.
clean_dir_remove_dir_all ==
  /\ boot.pc = "remove_dir_all"
  /\ LET dir == join_dir(root, ".tmp/") IN
     \E o \in FsRemoveDirAll(staging) :
       LET logged == [boot EXCEPT !.log = Append(@, LogEntry("remove_dir_all", dir, o.res))] IN
       /\ staging' = o.staging
       /\ boot' = IF o.res # "Ok"
                    THEN [logged EXCEPT !.pc = "done",
                            !.result = [kind |-> "CleanDir", dir |-> dir, source |-> o.res]]
                    ELSE [logged EXCEPT !.pc = "build"]
  /\ UNCHANGED layer_vars

\* The Fs builder is given the root and the staging directory and the store
\* is constructed; an error is wrapped as OpenDal, a store is returned with
\* its instrument layers.
new_fs_object_store_build ==
  /\ boot.pc = "build"
  /\ \E o \in FsBuild(staging) :
       LET logged == [boot EXCEPT !.log = Append(@, LogEntry("build", root, o.res))] IN
       /\ staging' = o.staging
       /\ boot' = IF o.res # "Ok"
                    THEN [logged EXCEPT !.pc = "done",
                            !.result = [kind |-> "OpenDal", source |-> o.res]]
                    ELSE [logged EXCEPT !.pc = "done",
                            !.result = [kind |-> "Ok", atomic_write_dir |-> join_dir(root, ".tmp/")]]
  /\ UNCHANGED layer_vars

\* The returned store stages a write in its atomic-write directory ...
store_stage ==
  /\ boot.pc \in {"done", "in_use"}
  /\ boot.result.kind = "Ok"
  /\ \E f \in FileIds :
       /\ f \notin staging.files
       /\ staging' = [exists |-> TRUE, files |-> staging.files \cup {f}]
  /\ boot' = [boot EXCEPT !.pc = "in_use"]
  /\ UNCHANGED layer_vars

\* ... and publishes it: the staged file is renamed to its destination.
store_publish ==
  /\ boot.pc = "in_use"
  /\ \E f \in staging.files : staging' = [staging EXCEPT !.files = @ \ {f}]
  /\ UNCHANGED <<boot, layer_vars>>

\* The process ends, by a crash or after its call returned; what is in the
\* staging directory stays.
process_exit ==
  /\ boot.pc \notin {"none", "down"}
  /\ boot' = [BootIdle EXCEPT !.pc = "down", !.runs = boot.runs]
  /\ UNCHANGED <<staging, layer_vars>>

\* The layer is in use: its store was handed to it ready made.
LayerBuilt == boot.pc = "none"

\* The sequential caller: the region's single writer makes one call at a
\* time, MaxCalls calls in all, MaxWrites of them write_sst calls.
Caller == "t1"

Next ==
  \/ LayerBuilt /\ calls < MaxCalls /\ delete_sst_begin(Caller) /\ UNCHANGED boot_vars
  \/ delete_sst_data(Caller) /\ UNCHANGED boot_vars
  \/ delete_sst_index(Caller) /\ UNCHANGED boot_vars
  \/ LayerBuilt /\ calls < MaxCalls /\ writes < MaxWrites /\ write_sst_begin(Caller)
       /\ UNCHANGED boot_vars
  \/ write_sst_write_cache(Caller) /\ UNCHANGED boot_vars
  \/ write_sst_direct(Caller) /\ UNCHANGED boot_vars
  \/ write_sst_finish(Caller) /\ UNCHANGED boot_vars
  \/ write_sst_abandon(Caller) /\ UNCHANGED boot_vars
  \/ LayerBuilt /\ calls < MaxCalls /\ is_exist_begin(Caller) /\ UNCHANGED boot_vars
  \/ is_exist_check(Caller) /\ UNCHANGED boot_vars

Spec == Init /\ [][Next]_vars

\* The bootstrap of a local store, run after run.
NextBootstrap ==
  \/ new_fs_object_store_begin
  \/ clean_dir_try_exists
  \/ clean_dir_remove_dir_all
  \/ new_fs_object_store_build
  \/ store_stage
  \/ store_publish
  \/ process_exit

SpecBootstrap == InitBootstrap /\ [][NextBootstrap]_vars

\* Every operation of the file: a behaviour is one of the sequential caller
\* on a layer whose store was handed to it, or one of a process that makes
\* its local store.
InitOps == Init \/ InitBootstrap

NextOps == Next \/ NextBootstrap

SpecOps == InitOps /\ [][NextOps]_vars

\* Concurrent callers: the layer serializes nothing, so the calls of the
\* tasks interleave at every await.  Each behaviour holds as many calls as
\* there are tasks.
RaceBegin(t) == LayerBuilt /\ task[t].pc = "idle" /\ calls < Cardinality(Tasks)

NextRace ==
  \E t \in Tasks :
    \/ RaceBegin(t) /\ delete_sst_begin(t) /\ UNCHANGED boot_vars
    \/ delete_sst_data(t) /\ UNCHANGED boot_vars
    \/ delete_sst_index(t) /\ UNCHANGED boot_vars
    \/ RaceBegin(t) /\ write_sst_begin(t) /\ UNCHANGED boot_vars
    \/ write_sst_write_cache(t) /\ UNCHANGED boot_vars
    \/ write_sst_direct(t) /\ UNCHANGED boot_vars
    \/ write_sst_finish(t) /\ UNCHANGED boot_vars
    \/ write_sst_abandon(t) /\ UNCHANGED boot_vars
    \/ RaceBegin(t) /\ is_exist_begin(t) /\ UNCHANGED boot_vars
    \/ is_exist_check(t) /\ UNCHANGED boot_vars

SpecRace == Init /\ [][NextRace]_vars

\* ================================================================ claims
\* A call's own paths, and what its record says of it.
DataPath(t) == sst_file_path(region_dir, task[t].req.file_id)
IndexPath(t) == index_file_path(region_dir, task[t].req.file_id)
Returned(t, op) == task[t].pc = "done" /\ task[t].req.op = op
\* The backend answered every request of the call (none failed inside the
\* backend).
NoFault(t) == \A i \in 1..Len(task[t].log) : task[t].log[i].res # "Unexpected"

\* C1: in every call of delete_sst, a delete of the index path is issued only
\* after the delete of the data path of the same file id was issued by the
\* same call and returned success; the index delete is never issued before
\* the data delete or without it.
C1_DeleteOrdering ==
  \A t \in Tasks :
    task[t].req.op = "delete_sst" =>
      \A i \in 1..Len(task[t].log) :
        (task[t].log[i].op = "delete" /\ task[t].log[i].path = IndexPath(t)) =>
          \E j \in 1..(i - 1) :
            task[t].log[j] = LogEntry("delete", DataPath(t), "Ok")

\* A delete_sst call has issued the index delete (after its data delete).
C1_Witness ==
  \E t \in Tasks :
    /\ Returned(t, "delete_sst")
    /\ Len(task[t].log) = 2
    /\ task[t].log[2].path = IndexPath(t)

\* The cache entry of the call's request: (region id of the request
\* metadata, request file id) in the request's cache manager.
CacheEntry(t) ==
  get_parquet_meta_data(cache, task[t].req.cache_manager, task[t].req.region_id,
                        task[t].req.file_id)
HasMeta(r) == r.kind = "Some" /\ IsSome(r.info.file_metadata)

\* C2: when write_sst has returned Some(info) and info carries footer
\* metadata, the lookup in the request's cache manager under (region id of
\* the request metadata, request file id) yields exactly that metadata,
\* whichever write path ran.
C2_CacheSeeded ==
  \A t \in Tasks :
    (Returned(t, "write_sst") /\ HasMeta(task[t].result)) =>
      CacheEntry(t) = task[t].result.info.file_metadata

\* A cache-mediated write for region r2 has returned metadata and the cache
\* holds it.
C2_Witness ==
  \E t \in Tasks :
    /\ Returned(t, "write_sst") /\ HasMeta(task[t].result)
    /\ task[t].strategy = <<"write_cache">>
    /\ task[t].req.region_id = "r2"
    /\ CacheEntry(t) = Some(ParquetMetaData(task[t].req.rows))

\* C3: the cache changes only in the step in which a write_sst call returns
\* Some(info) with footer metadata, and then only at that call's (region id,
\* file id): a call that failed, is in flight, was dropped or returned None
\* has inserted nothing.
C3_CacheOnlyAfterSuccess ==
  /\ [][cache' # cache =>
          \E t \in Tasks :
            /\ task[t].req.op = "write_sst"
            /\ task[t].pc = "put_meta" /\ task'[t].pc = "done"
            /\ HasMeta(task'[t].result)
            /\ \A cm \in CacheManagers, k \in RegionIds \X FileIds :
                 cache'[cm][k] # cache[cm][k] =>
                   (cm = task[t].req.cache_manager
                      /\ k = <<task[t].req.region_id, task[t].req.file_id>>)]_vars
  /\ [](\A t \in Tasks :
          task[t].cache_puts # {} => (Returned(t, "write_sst") /\ HasMeta(task[t].result)))

\* A write has succeeded with footer metadata and is still in flight: its
\* cache entry is not there yet.
C3_Witness ==
  \E t \in Tasks :
    /\ task[t].pc = "put_meta"
    /\ IsSome(task[t].sst_info) /\ IsSome(Unwrap(task[t].sst_info).file_metadata)
    /\ store[DataPath(t)] = "complete"
    /\ CacheEntry(t) = None

\* C4: a write_sst call that returns without failing returns None iff its
\* source yields zero rows, on either write path; such a call has put no
\* object, and no step of it changes the store.
C4_EmptySource ==
  /\ [](\A t \in Tasks :
          (Returned(t, "write_sst") /\ task[t].result.kind # "Err") =>
            /\ task[t].result.kind = "None" <=> task[t].req.rows = 0
            /\ task[t].result.kind = "None" => task[t].log = <<>>)
  /\ [][\A t \in Tasks :
          (task[t].req.op = "write_sst" /\ task[t].req.rows = 0
             /\ InFlight(t) /\ task'[t] # task[t]) => store' = store]_vars

\* A cache-mediated write of an empty source has returned None and nothing
\* is stored for its file id.
C4_Witness ==
  \E t \in Tasks :
    /\ Returned(t, "write_sst")
    /\ task[t].result.kind = "None"
    /\ task[t].strategy = <<"write_cache">>
    /\ store[DataPath(t)] = "absent" /\ store[IndexPath(t)] = "absent"

\* C5: when is_exist answers for file id f: it answers true if a write_sst
\* call has returned Some(info) for f and no delete_sst was called for f, and
\* it answers false if no write_sst call was ever made for f.  (A failure of
\* the backend's lookup is returned as an error instead of an answer.)
C5_ExistenceRoundTrip ==
  \A t \in Tasks :
    (Returned(t, "is_exist") /\ task[t].result.kind = "Bool") =>
      LET f == task[t].req.file_id IN
      /\ (f \in write_done /\ f \notin delete_begun) => task[t].result.value
      /\ f \notin write_begun => ~task[t].result.value

\* is_exist has answered true for a file id written without an index and
\* never deleted.
C5_Witness ==
  \E t \in Tasks :
    /\ Returned(t, "is_exist")
    /\ task[t].req.file_id \in write_done
    /\ task[t].req.file_id \notin delete_begun
    /\ store[IndexPath(t)] = "absent"
    /\ task[t].result.kind = "Bool" /\ task[t].result.value

\* C6: a write_sst call whose request has create_inverted_index = false puts
\* nothing at the index path of its file id, leaves what is stored there
\* unchanged, and the info it returns reports no inverted index, on either
\* write path.
C6_NoIndexWhenDisabled ==
  /\ [](\A t \in Tasks :
          (task[t].req.op = "write_sst" /\ ~task[t].req.create_inverted_index) =>
            /\ \A i \in 1..Len(task[t].log) : task[t].log[i].path # IndexPath(t)
            /\ (task[t].pc = "done" /\ task[t].result.kind = "Some") =>
                 ~task[t].result.info.inverted_index_available)
  /\ [][\A t \in Tasks :
          (task[t].req.op = "write_sst" /\ ~task[t].req.create_inverted_index
             /\ InFlight(t) /\ task'[t] # task[t]) =>
            store'[IndexPath(t)] = store[IndexPath(t)]]_vars

\* A cache-mediated write with index creation disabled has returned
\* Some(info): the data object is stored and no index object is.
C6_Witness ==
  \E t \in Tasks :
    /\ Returned(t, "write_sst")
    /\ ~task[t].req.create_inverted_index
    /\ task[t].result.kind = "Some"
    /\ task[t].strategy = <<"write_cache">>
    /\ store[DataPath(t)] = "complete" /\ store[IndexPath(t)] = "absent"

\* C7: a write_sst call runs at most one write strategy, the one the
\* request's cache manager decides when the call is made: the cache-mediated
\* path iff that manager reports a write cache, the direct writer otherwise.
\* It never runs a second strategy, also not after a failure, and a call that
\* returns has run exactly one and returns Some(info), None or the error.
C7_OneStrategy ==
  \A t \in Tasks :
    task[t].req.op = "write_sst" =>
      LET chosen == IF IsSome(write_cache(task[t].req.cache_manager))
                      THEN "write_cache" ELSE "direct" IN
      /\ Len(task[t].strategy) <= 1
      /\ \A i \in 1..Len(task[t].strategy) : task[t].strategy[i] = chosen
      /\ InFlight(t) => task[t].pc \in {chosen, "put_meta"}
      /\ task[t].pc = "done" =>
           /\ Len(task[t].strategy) = 1
           /\ task[t].result.kind \in {"Some", "None", "Err"}
           /\ task[t].result.kind = "Some" <=> IsSome(task[t].sst_info)

\* A cache-mediated write has failed and the call has returned the error
\* without running the direct writer.
C7_Witness ==
  \E t \in Tasks :
    /\ Returned(t, "write_sst")
    /\ task[t].result.kind = "Err"
    /\ task[t].strategy = <<"write_cache">>

\* C8 as stated: delete_sst returns the primary-delete error, tagged with the
\* file id, exactly when the data delete failed, and the index-delete error,
\* tagged with the file id, exactly when the data delete succeeded and the
\* index delete failed; and in that second case the data object is absent
\* while the index object remains in the backend.
C8_AsStated ==
  \A t \in Tasks :
    Returned(t, "delete_sst") =>
      LET r == task[t].result
          l == task[t].log IN
      /\ r.kind = "DeleteSst" <=> l[1].res # "Ok"
      /\ r.kind = "DeleteIndex" <=> (l[1].res = "Ok" /\ Len(l) = 2 /\ l[2].res # "Ok")
      /\ r.kind # "Ok" => r.file_id = task[t].req.file_id
      /\ r.kind = "DeleteIndex" =>
           store[DataPath(t)] = "absent" /\ store[IndexPath(t)] # "absent"

\* C8 as amended: the two errors are returned exactly in their two cases,
\* tagged with the file id; when the index-delete error is returned the data
\* object is absent and the failed index delete has left the index path as
\* it was (an index object that was there remains; none need be there).
C8_DeleteErrors ==
  /\ [](\A t \in Tasks :
          Returned(t, "delete_sst") =>
            LET r == task[t].result
                l == task[t].log IN
            /\ l[1].op = "delete" /\ l[1].path = DataPath(t)
            /\ r.kind = "DeleteSst" <=> l[1].res # "Ok"
            /\ r.kind = "DeleteIndex" <=> (l[1].res = "Ok" /\ Len(l) = 2 /\ l[2].res # "Ok")
            /\ r.kind # "Ok" => r.file_id = task[t].req.file_id
            /\ r.kind = "DeleteIndex" => store[DataPath(t)] = "absent")
  /\ [][\A t \in Tasks :
          (task[t].pc = "delete_index" /\ task'[t].pc = "done"
             /\ task'[t].result.kind = "DeleteIndex") =>
            store'[IndexPath(t)] = store[IndexPath(t)]]_vars

\* delete_sst returned the index-delete error: the data object is gone and
\* the index object is still there.
C8_Witness ==
  \E t \in Tasks :
    /\ Returned(t, "delete_sst")
    /\ task[t].result.kind = "DeleteIndex"
    /\ store[DataPath(t)] = "absent"
    /\ store[IndexPath(t)] # "absent"

\* C9: whether delete_sst attempts the index delete is decided by the
\* FileMeta's flag alone.  Flag false: the call issues exactly one backend
\* delete, that of the data path, issues nothing on the index path whatever
\* is stored there, and returns success iff that delete succeeded.  Flag
\* true: once the data delete has succeeded the call issues the index delete.
C9_FlagDecides ==
  \A t \in Tasks :
    LET l == task[t].log
        flag == task[t].req.inverted_index_available IN
    /\ (task[t].req.op = "delete_sst" /\ ~flag) =>
         /\ \A i \in 1..Len(l) : l[i].path # IndexPath(t)
         /\ task[t].pc # "delete_index"
         /\ task[t].pc = "done" =>
              /\ Len(l) = 1 /\ l[1].op = "delete" /\ l[1].path = DataPath(t)
              /\ task[t].result.kind = "Ok" <=> l[1].res = "Ok"
    /\ (Returned(t, "delete_sst") /\ flag /\ l[1].res = "Ok") =>
         Len(l) = 2 /\ l[2].op = "delete" /\ l[2].path = IndexPath(t)

\* delete_sst with the flag false has returned success and an index object
\* is still stored for the file id.
C9_Witness ==
  \E t \in Tasks :
    /\ Returned(t, "delete_sst")
    /\ ~task[t].req.inverted_index_available
    /\ task[t].result.kind = "Ok"
    /\ store[IndexPath(t)] # "absent"

\* C10: delete_sst on a file id no write_sst call was ever made for fails in
\* the primary (data) delete and issues no index delete; the failure is the
\* backend's not-found answer for the data path (unless the request failed
\* inside the backend, whose error is then the one returned).
C10_DeleteNeverWritten ==
  \A t \in Tasks :
    (Returned(t, "delete_sst") /\ task[t].req.file_id \notin write_begun) =>
      /\ task[t].result.kind = "DeleteSst"
      /\ task[t].result.file_id = task[t].req.file_id
      /\ Len(task[t].log) = 1
      /\ task[t].log[1].path = DataPath(t)
      /\ NoFault(t) => task[t].result.source = "NotFound"

\* delete_sst of a never written file id, with the index flag set, has
\* returned the not-found failure of the primary delete.
C10_Witness ==
  \E t \in Tasks :
    /\ Returned(t, "delete_sst")
    /\ task[t].req.file_id \notin write_begun
    /\ task[t].req.inverted_index_available
    /\ task[t].result.kind = "DeleteSst"
    /\ task[t].result.source = "NotFound"

\* new_fs_object_store has just returned a store: nothing has used it yet.
BootReturnedStore == boot.pc = "done" /\ boot.result.kind = "Ok"

\* C11: immediately after new_fs_object_store(root) returns a store, the
\* staging directory join_dir(root, ".tmp/") holds no file, whatever it held
\* when the call began (files of earlier runs, of writes a crash
\* interrupted): it does not exist, or it exists and is empty.
C11_CleanStaging == BootReturnedStore => staging.files = {}

\* A store is returned over a directory that held staged files when the
\* call began.
C11_Witness ==
  /\ BootReturnedStore
  /\ boot.found.exists
  /\ boot.found.files # {}
  /\ staging.files = {}

\* An index object was stored for the call's file id when the call began: one
\* is stored now, or the call has deleted one.
IndexWasStored(t) ==
  \/ store[IndexPath(t)] # "absent"
  \/ \E i \in 1..Len(task[t].log) :
       task[t].log[i] = LogEntry("delete", IndexPath(t), "Ok")

\* C12: once a file id f was written with success and delete_sst on f has
\* returned success with a FileMeta whose flag says whether an index object
\* was stored for f, neither the data object nor the index object of f is in
\* the backend; and as long as f is not written again its data object stays
\* absent and is_exist on f answers false.
C12_WriteThenDelete ==
  /\ \A t \in Tasks :
       (/\ Returned(t, "delete_sst")
        /\ task[t].result.kind = "Ok"
        /\ task[t].req.file_id \in write_done
        /\ task[t].req.inverted_index_available = IndexWasStored(t))
       => /\ store[DataPath(t)] = "absent"
          /\ store[IndexPath(t)] = "absent"
  /\ \A f \in write_done :
       delete_outcome[f] = "deleted" => store[sst_file_path(region_dir, f)] = "absent"
  /\ \A t \in Tasks :
       (/\ Returned(t, "is_exist")
        /\ task[t].result.kind = "Bool"
        /\ task[t].req.file_id \in write_done
        /\ delete_outcome[task[t].req.file_id] = "deleted")
       => task[t].result.value = FALSE

\* A file id was written, then deleted, and is_exist on it has answered
\* false; nothing is stored for it.
C12_Witness ==
  \E t \in Tasks :
    /\ Returned(t, "is_exist")
    /\ task[t].req.file_id \in write_done
    /\ delete_outcome[task[t].req.file_id] = "deleted"
    /\ task[t].result = [kind |-> "Bool", value |-> FALSE]
    /\ store[DataPath(t)] = "absent"
    /\ store[IndexPath(t)] = "absent"

\* Task t takes the step: its record changes, and not by being cleared.
Acts(t) == task'[t] # task[t] /\ task'[t] # Idle

\* C13: calls on different file ids do not interfere.  Whatever else is in
\* flight, a step of a call on file id A leaves alone the objects and the
\* cache entries of every other file id and the record of every other call
\* in flight; and every backend operation the call issues addresses a path of
\* A, every cache entry it inserts is keyed by A.  So a call on B neither
\* reads nor writes anything a call on A reads or writes, and what the calls
\* on A return and leave behind is what they return and leave when run alone.
C13_NonInterference ==
  [][\A t \in Tasks :
       Acts(t) =>
         LET A == task'[t].req.file_id IN
         /\ \A f \in FileIds \ {A} :
              /\ store'[sst_file_path(region_dir, f)] = store[sst_file_path(region_dir, f)]
              /\ store'[index_file_path(region_dir, f)] = store[index_file_path(region_dir, f)]
              /\ \A cm \in CacheManagers, r \in RegionIds :
                   get_parquet_meta_data(cache', cm, r, f)
                     = get_parquet_meta_data(cache, cm, r, f)
         /\ \A u \in Tasks \ {t} : InFlight(u) => task'[u] = task[u]
         /\ \A i \in 1..Len(task'[t].log) :
              task'[t].log[i].path \in {sst_file_path(region_dir, A),
                                        index_file_path(region_dir, A)}
         /\ \A k \in task'[t].cache_puts : k[3] = A]_vars

\* Two writes on different file ids overlap: one has returned and seeded the
\* cache while the other, begun before that, has written its objects and not
\* yet returned.
C13_Witness ==
  \E t, u \in Tasks :
    /\ task[t].req.file_id # task[u].req.file_id
    /\ task[t].req.op = "write_sst" /\ task[t].pc = "put_meta"
    /\ IsSome(task[t].sst_info)
    /\ store[DataPath(t)] = "complete"
    /\ Returned(u, "write_sst") /\ HasMeta(task[u].result)
    /\ CacheEntry(u) = task[u].result.info.file_metadata
    /\ store[DataPath(u)] = "complete"

\* The cache key of a write_sst call.
SameKey(t, u) ==
  /\ task[t].req.cache_manager = task[u].req.cache_manager
  /\ task[t].req.region_id = task[u].req.region_id
  /\ task[t].req.file_id = task[u].req.file_id

\* C14: concurrent write_sst calls on one (region id, file id) resolve last
\* write wins.  When a call whose write produced footer metadata performs its
\* cache insertion, the entry of its key becomes that metadata whatever the
\* entry held, an insertion of another call included; the call returns its
\* info, no error; every other entry is left as it was.  So after both calls
\* have finished the entry is the metadata of the one that inserted last.
C14_LastWriteWins ==
  [][\A t \in Tasks :
       (task[t].pc = "put_meta" /\ task'[t].pc = "done") =>
         LET request == task[t].req
             key == <<request.cache_manager, request.region_id, request.file_id>> IN
         /\ IsSome(task[t].sst_info) => task'[t].result.kind = "Some"
         /\ HasMeta(task'[t].result) =>
              get_parquet_meta_data(cache', key[1], key[2], key[3])
                = task'[t].result.info.file_metadata
         /\ \A k \in CacheManagers \X RegionIds \X FileIds :
              (k # key \/ ~HasMeta(task'[t].result)) =>
                 get_parquet_meta_data(cache', k[1], k[2], k[3])
                   = get_parquet_meta_data(cache, k[1], k[2], k[3])]_vars

\* Two writes on one key overlap and both produced footer metadata, of
\* different row counts: one has inserted its metadata and returned, the
\* other, begun before that, is about to insert its own over it.
C14_Witness ==
  \E t, u \in Tasks :
    /\ t # u /\ SameKey(t, u)
    /\ Returned(u, "write_sst") /\ HasMeta(task[u].result)
    /\ CacheEntry(u) = task[u].result.info.file_metadata
    /\ task[t].req.op = "write_sst" /\ task[t].pc = "put_meta"
    /\ IsSome(task[t].sst_info)
    /\ IsSome(Unwrap(task[t].sst_info).file_metadata)
    /\ Unwrap(task[t].sst_info).file_metadata # CacheEntry(u)

\* No operation is issued twice in the log, and a failed operation is the
\* log's last.
IssuedOnce(log) ==
  \A i, j \in 1..Len(log) :
    i < j => <<log[i].op, log[i].path>> # <<log[j].op, log[j].path>>
FailureEnds(log) ==
  \A i \in 1..Len(log) : log[i].res # "Ok" => i = Len(log)
Failed(log) == \E i \in 1..Len(log) : log[i].res # "Ok"

\* C15: no operation retries internally.  In one call of delete_sst or
\* is_exist every backend operation is issued at most once, a failed one is
\* the last the call issues, and the call has then returned an error.  One
\* call of write_sst runs one write strategy once, puts each of its objects
\* at most once, and when the write failed the call is over, with an error if
\* it returned, and has inserted nothing into the cache.  One call of
\* new_fs_object_store issues the existence check, the removal and the
\* construction at most once each, a failed one is the last, and the call
\* has then returned an error.
C15_NoRetry ==
  /\ \A t \in Tasks :
       LET log == task[t].log IN
       /\ IssuedOnce(log)
       /\ task[t].req.op \in {"delete_sst", "is_exist"} =>
            /\ FailureEnds(log)
            /\ Failed(log) =>
                 /\ task[t].pc = "done"
                 /\ task[t].result.kind \in {"DeleteSst", "DeleteIndex", "OpenDal"}
       /\ task[t].req.op = "write_sst" =>
            /\ Len(task[t].strategy) <= 1
            /\ Failed(log) =>
                 /\ Finished(t)
                 /\ task[t].pc = "done" => task[t].result.kind = "Err"
                 /\ task[t].cache_puts = {}
  /\ IssuedOnce(boot.log)
  /\ FailureEnds(boot.log)
  /\ Failed(boot.log) =>
       /\ boot.pc = "done"
       /\ boot.result.kind \in {"CleanDir", "OpenDal"}

\* A delete_sst call that was to delete both objects has returned after its
\* first operation failed inside the backend: one operation issued, the data
\* object still stored.
C15_Witness ==
  \E t \in Tasks :
    /\ Returned(t, "delete_sst")
    /\ task[t].req.inverted_index_available
    /\ task[t].log = <<LogEntry("delete", DataPath(t), "Unexpected")>>
    /\ task[t].result.kind = "DeleteSst"
    /\ store[DataPath(t)] # "absent"
    /\ store[IndexPath(t)] # "absent"

\* The place in the call's log of the operation op, 0 if it was not issued.
BootIssued(op) ==
  IF \E i \in 1..Len(boot.log) : boot.log[i].op = op
    THEN CHOOSE i \in 1..Len(boot.log) : boot.log[i].op = op
    ELSE 0
BootAnswer(op) == boot.log[BootIssued(op)].res

\* C16: new_fs_object_store cleans the staging directory before it
\* constructs the store.  The construction is issued only after the
\* existence check succeeded and, if the directory existed, its removal
\* succeeded; the removal is issued exactly when the check found the
\* directory, and a directory that is absent is no error; when the check or
\* the removal fails the call returns the CleanDir error naming the
\* directory, the construction is never issued and no store is returned.
C16_CleanBeforeBuild ==
  LET dir == join_dir(root, ".tmp/")
      checked == BootIssued("try_exists")
      removed == BootIssued("remove_dir_all")
      built == BootIssued("build") IN
  /\ built > 0 =>
       /\ checked > 0 /\ checked < built /\ BootAnswer("try_exists") = "Ok"
       /\ boot.found.exists =>
            removed > checked /\ removed < built /\ BootAnswer("remove_dir_all") = "Ok"
  /\ removed > 0 =>
       checked > 0 /\ checked < removed /\ BootAnswer("try_exists") = "Ok" /\ boot.found.exists
  /\ (checked > 0 /\ BootAnswer("try_exists") = "Ok" /\ boot.pc # "remove_dir_all") =>
       (removed > 0 <=> boot.found.exists)
  /\ (checked > 0 /\ BootAnswer("try_exists") = "Ok" /\ ~boot.found.exists) =>
       boot.result.kind # "CleanDir"
  /\ (\/ checked > 0 /\ BootAnswer("try_exists") # "Ok"
      \/ removed > 0 /\ BootAnswer("remove_dir_all") # "Ok") =>
       /\ boot.pc = "done"
       /\ boot.result.kind = "CleanDir"
       /\ boot.result.dir = dir
       /\ built = 0
  /\ boot.result.kind = "Ok" => built > 0 /\ BootAnswer("build") = "Ok"

\* The removal of a directory that held staged files failed and left some:
\* the call has returned the CleanDir error and constructed nothing.
C16_Witness ==
  /\ boot.pc = "done"
  /\ boot.result.kind = "CleanDir"
  /\ boot.found.files # {}
  /\ BootIssued("remove_dir_all") = 2
  /\ BootAnswer("remove_dir_all") = "IoError"
  /\ BootIssued("build") = 0
  /\ staging.files # {}

\* C17: is_exist depends on the data object alone and changes nothing.  No
\* step of an is_exist call changes the backend or the cache; the one backend
\* operation it issues is the existence check of the data path of its file
\* id; and the boolean it returns is whether an object is stored at that
\* path, whether or not an index object is stored for the file id, whatever
\* the FileMeta's flag and whatever the cache holds.
C17_IsExistFrame ==
  [][\A t \in Tasks :
       (Acts(t) /\ task'[t].req.op = "is_exist") =>
         LET path == sst_file_path(region_dir, task'[t].req.file_id) IN
         /\ store' = store
         /\ cache' = cache
         /\ \A i \in 1..Len(task'[t].log) :
              task'[t].log[i].op = "is_exist" /\ task'[t].log[i].path = path
         /\ (task'[t].pc = "done" /\ task'[t].result.kind = "Bool") =>
              task'[t].result.value = (store[path] # "absent")]_vars

\* is_exist has answered false for a file id whose FileMeta has the flag
\* set and whose index object is stored: the data object is absent.
C17_Witness ==
  \E t \in Tasks :
    /\ Returned(t, "is_exist")
    /\ task[t].req.inverted_index_available
    /\ store[IndexPath(t)] # "absent"
    /\ store[DataPath(t)] = "absent"
    /\ task[t].result = [kind |-> "Bool", value |-> FALSE]

\* C18: a write_sst call that fails or is abandoned mid-flight changes at
\* most the objects at the data path and the index path of its own file id.
\* Entering the call changes neither backend nor cache; the step in which the
\* write fails or is dropped changes only objects at the call's own two
\* paths, and only by leaving a partially written object there: nothing is
\* deleted or cleaned up, no object of another file id changes, the call
\* issues no backend operation but puts to its own paths, what a put has
\* written is still stored, and no cache entry is added.
C18_FailedWriteFrame ==
  [][\A t \in Tasks :
       (Acts(t) /\ task'[t].req.op = "write_sst") =>
         LET own == {sst_file_path(region_dir, task'[t].req.file_id),
                     index_file_path(region_dir, task'[t].req.file_id)} IN
         /\ task'[t].pc \in {"direct", "write_cache"} => store' = store /\ cache' = cache
         /\ (\/ task'[t].pc = "dropped"
             \/ task'[t].pc = "done" /\ task'[t].result.kind = "Err") =>
              /\ \A p \in Paths :
                   store'[p] # store[p] => p \in own /\ store'[p] = "partial"
              /\ cache' = cache
              /\ task'[t].cache_puts = {}
              /\ \A i \in 1..Len(task'[t].log) :
                   /\ task'[t].log[i].op = "put"
                   /\ task'[t].log[i].path \in own
                   /\ store'[task'[t].log[i].path] # "absent"]_vars

\* A write has returned an error and left partially written objects at both
\* of its paths; the cache holds nothing for its key.
C18_Witness ==
  \E t \in Tasks :
    /\ Returned(t, "write_sst")
    /\ task[t].result.kind = "Err"
    /\ store[DataPath(t)] = "partial"
    /\ store[IndexPath(t)] = "partial"
    /\ ~IsSome(CacheEntry(t))

\* C19: delete_sst never changes the Cache Manager: no step of a delete_sst
\* call changes any cache entry.  So the metadata a write_sst seeded under
\* (region id, file id) is still in the cache after delete_sst on the file id
\* has succeeded and the data object is gone, whether the delete ran after
\* the write or between the write's steps.
C19_DeleteKeepsCache ==
  [][\A t \in Tasks :
       (Acts(t) /\ task'[t].req.op = "delete_sst") => cache' = cache]_vars

\* A write and a delete of one file id interleaved: the delete succeeded
\* after the write had stored its objects, then the write seeded the cache
\* and returned; the cache holds the metadata of a file that is not stored.
C19_Witness ==
  \E t \in Tasks :
    /\ Returned(t, "write_sst") /\ HasMeta(task[t].result)
    /\ CacheEntry(t) = task[t].result.info.file_metadata
    /\ delete_outcome[task[t].req.file_id] = "deleted"
    /\ store[DataPath(t)] = "absent"

\* Task t's delete_sst call returns in this step; it was called, with the
\* flag set, for a file id whose index an earlier delete_sst left dangling,
\* and the backend has answered all its requests.
RetryReturns(t) ==
  /\ task[t].req.op = "delete_sst"
  /\ InFlight(t)
  /\ task'[t].pc = "done"
  /\ task[t].req.inverted_index_available
  /\ delete_outcome[task[t].req.file_id] = "dangling"
  /\ \A i \in 1..Len(task'[t].log) : task'[t].log[i].res # "Unexpected"

\* C20 as stated: a delete_sst retried on a dangling index, with no backend
\* fault during the retry, returns success and leaves no index object.
C20_AsStated ==
  [][\A t \in Tasks :
       RetryReturns(t) =>
         /\ task'[t].result.kind = "Ok"
         /\ store'[IndexPath(t)] = "absent"]_vars

\* C20: a dangling index is not reclaimed by retrying delete_sst.  From the
\* state an index-delete failure left (data object absent, index object
\* stored), delete_sst called again with the same FileMeta, with no backend
\* fault, fails in the data delete, which finds nothing to delete: the call
\* returns the DeleteSst error for the file id after that one operation,
\* issues no index delete, and the index object stays.
C20_RetryFails ==
  [][\A t \in Tasks :
       RetryReturns(t) =>
         /\ task'[t].result = [kind |-> "DeleteSst", file_id |-> task[t].req.file_id,
                               source |-> "NotFound"]
         /\ task'[t].log = <<LogEntry("delete", DataPath(t), "NotFound")>>
         /\ store' = store
         /\ store'[IndexPath(t)] # "absent"
         /\ delete_outcome'[task[t].req.file_id] = "dangling"]_vars

\* The retry has returned: the index left dangling by the failed delete is
\* still stored, and the call ended on the absent data object.
C20_Witness ==
  \E t \in Tasks :
    /\ Returned(t, "delete_sst")
    /\ task[t].req.inverted_index_available
    /\ delete_outcome[task[t].req.file_id] = "dangling"
    /\ task[t].result.kind = "DeleteSst"
    /\ task[t].result.source = "NotFound"
    /\ store[DataPath(t)] = "absent"
    /\ store[IndexPath(t)] # "absent"
====
